---- MODULE Spec2Model ----
(***************************************************************************)
(* A model of total.py: a top-down walk of the directory tree below "./",  *)
(* pruning the directories named node_modules, reading every file whose    *)
(* name ends in .js, .html, .css or .py as UTF-8 text, printing it and     *)
(* summing the line counts.  Text (file names, paths, file bytes, standard *)
(* output) is a sequence of one-character strings.                         *)
(***************************************************************************)
EXTENDS Integers, Sequences, FiniteSets, TLC

\* Longest content, in bytes, of the files whose content is an input.
MaxLen == 2
\* How many times the program is run over the same tree.
MaxRuns == 2

(***************************************************************************)
(* Text                                                                    *)
(***************************************************************************)
LF == "\n"
CR == "\r"
\* A byte that is no part of any valid UTF-8 sequence (0xFF).
BAD == "0xFF"
Bytes == {"x", LF, CR, BAD}

RECURSIVE Repeat(_, _)
Repeat(c, n) == IF n = 0 THEN <<>> ELSE <<c>> \o Repeat(c, n - 1)

RECURSIVE SeqsUpTo(_, _)
SeqsUpTo(S, n) ==
    IF n = 0 THEN {<<>>}
    ELSE LET shorter == SeqsUpTo(S, n - 1)
         IN  shorter \cup {Append(s, c) : s \in shorter, c \in S}

RECURSIVE Perms(_)
Perms(S) ==
    IF S = {} THEN {<<>>}
    ELSE UNION {{<<x>> \o p : p \in Perms(S \ {x})} : x \in S}

\* The literals of the program.
directory_path == <<".", "/">>
py == <<".", "p", "y">>
js == <<".", "j", "s">>
css == <<".", "c", "s", "s">>
html == <<".", "h", "t", "m", "l">>
file_extensions == {js, html, css, py}
node_modules == <<"n", "o", "d", "e", "_", "m", "o", "d", "u", "l", "e", "s">>
exclude_folders == {node_modules}
HyphenCount == 50
ContentsOf == <<"C", "o", "n", "t", "e", "n", "t", "s", " ", "o", "f", " ">>
ErrorReading == <<"E", "r", "r", "o", "r", " ", "r", "e", "a", "d", "i", "n", "g", " ">>
TotalLines == <<"T", "o", "t", "a", "l", " ", "l", "i", "n", "e", "s", ":", " ">>
\* The text of a UnicodeDecodeError, whose wording is the codec's.
DecodeErrorText == <<"<UnicodeDecodeError>">>

(***************************************************************************)
(* The library functions the program calls                                 *)
(***************************************************************************)
\* As if a suffix of the tuple had only to occur in s.
endswith_contains(s, suffixes) ==
    \E suf \in suffixes : \E i \in 1..Len(s) :
        i + Len(suf) - 1 <= Len(s) /\ SubSeq(s, i, i + Len(suf) - 1) = suf
\* str.endswith(tuple): some suffix of the tuple is a suffix of s, compared
\* character by character.
endswith(s, suffixes) ==
    \E suf \in suffixes :
        /\ Len(suf) <= Len(s)
        /\ SubSeq(s, Len(s) - Len(suf) + 1, Len(s)) = suf

\* os.path.join(a, b) for a relative b.
join(a, b) ==
    IF a = <<>> \/ a[Len(a)] = "/" THEN a \o b ELSE a \o <<"/">> \o b

\* The utf-8 codec accepts the bytes.
ValidUTF8(bytes) == \A i \in 1..Len(bytes) : bytes[i] # BAD

\* Universal newlines on reading: \r\n and a lone \r become \n.
RECURSIVE Translate(_)
Translate(bytes) ==
    IF bytes = <<>> THEN <<>>
    ELSE IF bytes[1] = CR
         THEN IF Len(bytes) >= 2 /\ bytes[2] = LF
              THEN <<LF>> \o Translate(SubSeq(bytes, 3, Len(bytes)))
              ELSE <<LF>> \o Translate(Tail(bytes))
         ELSE <<bytes[1]>> \o Translate(Tail(bytes))

\* The index of the first \n of a text, 0 when it has none.
RECURSIVE FirstLF(_, _)
FirstLF(text, i) ==
    IF i > Len(text) THEN 0
    ELSE IF text[i] = LF THEN i ELSE FirstLF(text, i + 1)

\* f.readlines() on decoded text: each line keeps its \n; the last line may
\* have none.
RECURSIVE SplitLines(_)
SplitLines(text) ==
    IF text = <<>> THEN <<>>
    ELSE LET k == FirstLF(text, 1)
         IN  IF k = 0 THEN <<text>>
             ELSE <<SubSeq(text, 1, k)>> \o SplitLines(SubSeq(text, k + 1, Len(text)))

\* As wc -l counts: a last line without a line end is dropped.
readlines_terminated(bytes) ==
    SelectSeq(SplitLines(Translate(bytes)), LAMBDA l : l[Len(l)] = LF)
readlines(bytes) == SplitLines(Translate(bytes))

\* str(n) of a natural number.
Digit(d) == <<"0", "1", "2", "3", "4", "5", "6", "7", "8", "9">>[d + 1]
RECURSIVE str(_)
str(n) == IF n < 10 THEN <<Digit(n)>> ELSE str(n \div 10) \o <<Digit(n % 10)>>

\* The concatenation of a sequence of texts.
RECURSIVE Flatten(_)
Flatten(ls) == IF ls = <<>> THEN <<>> ELSE Head(ls) \o Flatten(Tail(ls))

\* print(text, end=e) appends text and e to standard output.
print(stdout, text, e) == stdout \o text \o e

(***************************************************************************)
(* The directory trees the program is run on                               *)
(***************************************************************************)
src == <<"s", "r", "c">>
doc == <<"d", "o", "c">>
sub == <<"s", "u", "b">>
a_py == <<"a">> \o py
b_js == <<"b">> \o js
c_js == <<"c">> \o js
d_py == <<"d">> \o py
c_css == <<"c">> \o css
i_html == <<"i">> \o html
app_js == <<"a", "p", "p">> \o js
README == <<"R", "E", "A", "D", "M", "E">>
script_pyx == <<"s", "c", "r", "i", "p", "t", ".", "p", "y", "x">>
A_PY == <<"A", ".", "P", "Y">>

P_root == directory_path
P_src == join(P_root, src)
P_doc == join(P_root, doc)
P_nm == join(P_root, node_modules)
P_nm_sub == join(P_nm, sub)
P_src_nm == join(P_src, node_modules)
DirPaths == {P_root, P_src, P_doc, P_nm, P_nm_sub, P_src_nm}

\* The entries of each directory: its subdirectories and its other entries.
TreeDirs(d) ==
    IF d = P_root THEN {src, doc, node_modules}
    ELSE IF d = P_src THEN {node_modules}
    ELSE IF d = P_nm THEN {sub}
    ELSE {}
TreeFiles(d) ==
    IF d = P_root THEN {a_py, README}
    ELSE IF d = P_src THEN {b_js, script_pyx, A_PY}
    ELSE IF d = P_doc THEN {py, c_css, i_html}
    ELSE IF d = P_nm THEN {c_js}
    ELSE IF d = P_nm_sub THEN {app_js}
    ELSE {d_py}
FilePaths == UNION {{join(d, n) : n \in TreeFiles(d)} : d \in DirPaths}

F_a == join(P_root, a_py)
F_b == join(P_src, b_js)
F_py == join(P_doc, py)
F_css == join(P_doc, c_css)

\* What open() and read() do on a file is its mode: "ok"; "noopen", open()
\* raises an OSError (permission denied, no such file); "ioerr", read() raises
\* one.

\* Every order in which the listings of the tree can come.
Orders ==
    {[dirs |-> [d \in DirPaths |-> IF d = P_root THEN rd
                                   ELSE CHOOSE p \in Perms(TreeDirs(d)) : TRUE],
      files |-> [d \in DirPaths |-> IF d = P_root THEN rf
                                    ELSE IF d = P_src THEN sf
                                    ELSE IF d = P_doc THEN df
                                    ELSE CHOOSE p \in Perms(TreeFiles(d)) : TRUE]] :
        rd \in Perms(TreeDirs(P_root)), rf \in Perms(TreeFiles(P_root)),
        sf \in Perms(TreeFiles(P_src)), df \in Perms(TreeFiles(P_doc))}
BaseOrder ==
    [dirs |-> [d \in DirPaths |->
                  IF d = P_root THEN <<src, node_modules, doc>>
                  ELSE CHOOSE p \in Perms(TreeDirs(d)) : TRUE],
     files |-> [d \in DirPaths |->
                  IF d = P_root THEN <<README, a_py>>
                  ELSE IF d = P_src THEN <<script_pyx, b_js, A_PY>>
                  ELSE IF d = P_doc THEN <<c_css, py, i_html>>
                  ELSE CHOOSE p \in Perms(TreeFiles(d)) : TRUE]]

\* The bytes of the files: a.py's are any bytes of at most MaxLen, c.css's
\* are valid or not, the others' are fixed.
BaseData ==
    [f \in FilePaths |->
        IF f = F_a THEN <<"x", LF, "x", LF>>
        ELSE IF f = F_b THEN <<"x", CR, LF, "x", CR, "x">>
        ELSE IF f = join(P_doc, i_html) THEN <<"x">>
        ELSE IF f = join(P_nm, c_js) THEN <<"x", LF, "x", LF, "x", LF, "x", LF>>
        ELSE <<"x", LF>>]
Datas ==
    {[BaseData EXCEPT ![F_a] = a, ![F_css] = c] :
        a \in SeqsUpTo(Bytes, MaxLen), c \in {<<"x", LF>>, <<"x", LF, BAD>>}}

\* The files that cannot be opened or read, and the directories that cannot be
\* listed.  README, script.pyx and everything below node_modules never can.
BaseModes ==
    [f \in FilePaths |->
        IF f \in {join(P_root, README), join(P_nm_sub, app_js)} THEN "noopen"
        ELSE IF f = join(P_src, script_pyx) THEN "ioerr"
        ELSE "ok"]
ModeChoices ==
    {BaseModes, [BaseModes EXCEPT ![F_a] = "noopen"], [BaseModes EXCEPT ![F_b] = "ioerr"],
     [BaseModes EXCEPT ![F_py] = "noopen"]}
UnlistableChoices == {{P_nm_sub} \cup u : u \in SUBSET {P_src, P_doc}}

Trees ==
    {[order |-> o, data |-> BaseData, mode |-> BaseModes, unlistable |-> {P_nm_sub}] :
        o \in Orders}
    \cup
    {[order |-> BaseOrder, data |-> dt, mode |-> m, unlistable |-> u] :
        dt \in Datas, m \in ModeChoices, u \in UnlistableChoices}

(***************************************************************************)
(* The state of a run                                                      *)
(***************************************************************************)
VARIABLES
    fs,          \* the directory tree: listings, bytes, what fails
    pc,          \* where the program is
    stack,       \* os.walk: the directories still to be listed, next first
    root,        \* the directory of the current iteration
    dirs,        \* its subdirectories; what is left after line 10 is descended
    files,       \* its files not yet considered
    file_path,   \* the path of the file being read
    file_lines,  \* what readlines() returned
    total_lines, \* the accumulator
    f,           \* the files that are open
    stdout,      \* everything printed so far
    scanned,     \* history: the directories os.walk tried to list
    opened,      \* history: the paths passed to open()
    counted,     \* history: the paths read to the end
    run,         \* which run over the tree this is
    earlier      \* the output, total and outcome of the runs before

vars == <<fs, pc, stack, root, dirs, files, file_path, file_lines, total_lines, f,
          stdout, scanned, opened, counted, run, earlier>>

\* The state of the program when it starts: lines 1 to 7, and os.walk about
\* to list directory_path.
AtStart(p, st, r, ds, fl, fp, lines, total, open, o) ==
    /\ p = "walk"
    /\ st = <<directory_path>>
    /\ r = <<>>
    /\ ds = <<>>
    /\ fl = <<>>
    /\ fp = <<>>
    /\ lines = <<>>
    /\ total = 0
    /\ open = {}
    /\ o = <<>>

Init ==
    /\ fs \in Trees
    /\ AtStart(pc, stack, root, dirs, files, file_path, file_lines, total_lines, f, stdout)
    /\ scanned = {}
    /\ opened = {}
    /\ counted = {}
    /\ run = 1
    /\ earlier = <<>>

(***************************************************************************)
(* The program, statement by statement                                     *)
(***************************************************************************)
\* As if the error of os.scandir were raised: the program ends.
WalkError_raise ==
    /\ pc = "walk"
    /\ stack # <<>>
    /\ Head(stack) \in fs.unlistable
    /\ scanned' = scanned \cup {Head(stack)}
    /\ pc' = "aborted"
    /\ UNCHANGED <<fs, stack, root, dirs, files, file_path, file_lines, total_lines, f,
                   stdout, opened, counted, run, earlier>>

\* os.scandir(top) fails: os.walk was given no onerror, so it drops the
\* directory without a word and goes on with the next one.
WalkError ==
    /\ pc = "walk"
    /\ stack # <<>>
    /\ Head(stack) \in fs.unlistable
    /\ stack' = Tail(stack)
    /\ scanned' = scanned \cup {Head(stack)}
    /\ UNCHANGED <<fs, pc, root, dirs, files, file_path, file_lines, total_lines, f,
                   stdout, opened, counted, run, earlier>>

\* os.walk lists the next directory and yields (root, dirs, files): line 9.
Walk ==
    /\ pc = "walk"
    /\ stack # <<>>
    /\ Head(stack) \notin fs.unlistable
    /\ root' = Head(stack)
    /\ dirs' = fs.order.dirs[Head(stack)]
    /\ files' = fs.order.files[Head(stack)]
    /\ stack' = Tail(stack)
    /\ scanned' = scanned \cup {Head(stack)}
    /\ pc' = "prune"
    /\ UNCHANGED <<fs, file_path, file_lines, total_lines, f, stdout, opened, counted,
                   run, earlier>>

\* As if the exclusion were applied to the listing of directory_path only.
Prune_root_only ==
    /\ pc = "prune"
    /\ dirs' = IF root = directory_path
               THEN SelectSeq(dirs, LAMBDA d : d \notin exclude_folders)
               ELSE dirs
    /\ pc' = "files"
    /\ UNCHANGED <<fs, stack, root, files, file_path, file_lines, total_lines, f, stdout,
                   scanned, opened, counted, run, earlier>>

\* dirs[:] = [d for d in dirs if d not in exclude_folders]: line 10.
Prune ==
    /\ pc = "prune"
    /\ dirs' = SelectSeq(dirs, LAMBDA d : d \notin exclude_folders)
    /\ pc' = "files"
    /\ UNCHANGED <<fs, stack, root, files, file_path, file_lines, total_lines, f, stdout,
                   scanned, opened, counted, run, earlier>>

\* for file in files, if file.endswith(file_extensions): lines 11 to 13, for a
\* file that is selected.
SelectFile ==
    /\ pc = "files"
    /\ files # <<>>
    /\ endswith(Head(files), file_extensions)
    /\ file_path' = join(root, Head(files))
    /\ files' = Tail(files)
    /\ pc' = "open"
    /\ UNCHANGED <<fs, stack, root, dirs, file_lines, total_lines, f, stdout, scanned,
                   opened, counted, run, earlier>>

\* Lines 11 and 12 for a file that is not selected.
SkipFile ==
    /\ pc = "files"
    /\ files # <<>>
    /\ ~endswith(Head(files), file_extensions)
    /\ files' = Tail(files)
    /\ UNCHANGED <<fs, pc, stack, root, dirs, file_path, file_lines, total_lines, f,
                   stdout, scanned, opened, counted, run, earlier>>

\* The files of the directory are done: os.walk resumes and goes down into
\* what is left of dirs, in order, before the directories found earlier.
Descend ==
    /\ pc = "files"
    /\ files = <<>>
    /\ stack' = [i \in 1..Len(dirs) |-> join(root, dirs[i])] \o stack
    /\ pc' = "walk"
    /\ UNCHANGED <<fs, root, dirs, files, file_path, file_lines, total_lines, f, stdout,
                   scanned, opened, counted, run, earlier>>

\* As if the file were opened in mode 'w+', which empties it.
Open_truncating ==
    /\ pc = "open"
    /\ fs.mode[file_path] # "noopen"
    /\ fs' = [fs EXCEPT !.data[file_path] = <<>>]
    /\ f' = f \cup {file_path}
    /\ opened' = opened \cup {file_path}
    /\ pc' = "read"
    /\ UNCHANGED <<stack, root, dirs, files, file_path, file_lines, total_lines,
                   stdout, scanned, counted, run, earlier>>

\* open(file_path, 'r', encoding="utf-8"): line 15.
Open ==
    /\ pc = "open"
    /\ fs.mode[file_path] # "noopen"
    /\ f' = f \cup {file_path}
    /\ opened' = opened \cup {file_path}
    /\ pc' = "read"
    /\ UNCHANGED <<fs, stack, root, dirs, files, file_path, file_lines, total_lines,
                   stdout, scanned, counted, run, earlier>>

\* As if the except clause caught OSError too.
OpenError_caught ==
    /\ pc = "open"
    /\ fs.mode[file_path] = "noopen"
    /\ opened' = opened \cup {file_path}
    /\ stdout' = print(stdout, ErrorReading \o file_path \o <<":", " ">> \o <<"<OSError>">>,
                       <<LF>>)
    /\ pc' = "files"
    /\ UNCHANGED <<fs, stack, root, dirs, files, file_path, file_lines, total_lines, f,
                   scanned, counted, run, earlier>>

\* open() raises an OSError, which no except clause catches: the program
\* ends with a traceback.
OpenError ==
    /\ pc = "open"
    /\ fs.mode[file_path] = "noopen"
    /\ opened' = opened \cup {file_path}
    /\ pc' = "aborted"
    /\ UNCHANGED <<fs, stack, root, dirs, files, file_path, file_lines, total_lines, f,
                   stdout, scanned, counted, run, earlier>>

\* f.readlines() returns: line 16.
Read ==
    /\ pc = "read"
    /\ fs.mode[file_path] = "ok"
    /\ ValidUTF8(fs.data[file_path])
    /\ file_lines' = readlines(fs.data[file_path])
    /\ pc' = "print"
    /\ UNCHANGED <<fs, stack, root, dirs, files, file_path, total_lines, f, stdout,
                   scanned, opened, counted, run, earlier>>

\* As if there were no except clause: the decode error ends the program.
ReadDecodeError_uncaught ==
    /\ pc = "read"
    /\ fs.mode[file_path] = "ok"
    /\ ~ValidUTF8(fs.data[file_path])
    /\ f' = f \ {file_path}
    /\ pc' = "aborted"
    /\ UNCHANGED <<fs, stack, root, dirs, files, file_path, file_lines, total_lines,
                   stdout, scanned, opened, counted, run, earlier>>

\* f.readlines() raises UnicodeDecodeError: the with statement closes the
\* file and the except clause prints the error: lines 22 and 23.
ReadDecodeError ==
    /\ pc = "read"
    /\ fs.mode[file_path] = "ok"
    /\ ~ValidUTF8(fs.data[file_path])
    /\ f' = f \ {file_path}
    /\ stdout' = print(stdout, ErrorReading \o file_path \o <<":", " ">> \o DecodeErrorText,
                       <<LF>>)
    /\ pc' = "files"
    /\ UNCHANGED <<fs, stack, root, dirs, files, file_path, file_lines, total_lines,
                   scanned, opened, counted, run, earlier>>

\* f.readlines() raises an OSError: the with statement closes the file and
\* the program ends with a traceback.
ReadError ==
    /\ pc = "read"
    /\ fs.mode[file_path] = "ioerr"
    /\ f' = f \ {file_path}
    /\ pc' = "aborted"
    /\ UNCHANGED <<fs, stack, root, dirs, files, file_path, file_lines, total_lines,
                   stdout, scanned, opened, counted, run, earlier>>

\* The separator: print("\n" + "-" * 50 + "\n"), line 21.
Separator == <<LF>> \o Repeat("-", HyphenCount) \o <<LF>>

\* As if each line were printed with print's own end, a \n.
Printed_println(path, lines) ==
    print(print(print(<<>>, ContentsOf \o path \o <<":">>, <<LF>>),
                Flatten([i \in 1..Len(lines) |-> lines[i] \o <<LF>>]), <<>>),
          Separator, <<LF>>)

\* What lines 18 to 21 print for a file.
Printed(path, lines) ==
    print(print(print(<<>>, ContentsOf \o path \o <<":">>, <<LF>>),
                Flatten(lines), <<>>),
          Separator, <<LF>>)

\* As if the file were opened without a with statement and never closed.
PrintContents_unclosed ==
    /\ pc = "print"
    /\ total_lines' = total_lines + Len(file_lines)
    /\ stdout' = stdout \o Printed(file_path, file_lines)
    /\ counted' = counted \cup {file_path}
    /\ pc' = "files"
    /\ UNCHANGED <<fs, stack, root, dirs, files, file_path, file_lines, f, scanned,
                   opened, run, earlier>>

\* As if the characters read were counted, not the lines.
PrintContents_characters ==
    /\ pc = "print"
    /\ total_lines' = total_lines + Len(Flatten(file_lines))
    /\ stdout' = stdout \o Printed(file_path, file_lines)
    /\ f' = f \ {file_path}
    /\ counted' = counted \cup {file_path}
    /\ pc' = "files"
    /\ UNCHANGED <<fs, stack, root, dirs, files, file_path, file_lines, scanned, opened,
                   run, earlier>>

\* Lines 17 to 21, and the end of the with statement, which closes the file.
PrintContents ==
    /\ pc = "print"
    /\ total_lines' = total_lines + Len(file_lines)
    /\ stdout' = stdout \o Printed(file_path, file_lines)
    /\ f' = f \ {file_path}
    /\ counted' = counted \cup {file_path}
    /\ pc' = "files"
    /\ UNCHANGED <<fs, stack, root, dirs, files, file_path, file_lines, scanned, opened,
                   run, earlier>>

\* os.walk is exhausted: print(f"Total lines: {total_lines}"), line 25.
Finish ==
    /\ pc = "walk"
    /\ stack = <<>>
    /\ stdout' = print(stdout, TotalLines \o str(total_lines), <<LF>>)
    /\ pc' = "done"
    /\ UNCHANGED <<fs, stack, root, dirs, files, file_path, file_lines, total_lines, f,
                   scanned, opened, counted, run, earlier>>

\* The program is run again over the tree as the run before left it.
Rerun ==
    /\ pc \in {"done", "aborted"}
    /\ run < MaxRuns
    /\ earlier' = Append(earlier, [stdout |-> stdout, total_lines |-> total_lines,
                                   pc |-> pc])
    /\ run' = run + 1
    /\ AtStart(pc', stack', root', dirs', files', file_path', file_lines', total_lines',
               f', stdout')
    /\ scanned' = {}
    /\ opened' = {}
    /\ counted' = {}
    /\ UNCHANGED fs

Next ==
    \/ WalkError
    \/ Walk
    \/ Prune
    \/ SelectFile
    \/ SkipFile
    \/ Descend
    \/ Open
    \/ OpenError
    \/ Read
    \/ ReadDecodeError
    \/ ReadError
    \/ PrintContents
    \/ Finish
    \/ Rerun

Spec == Init /\ [][Next]_vars

(***************************************************************************)
(* Notions the properties are stated with, defined apart from the program  *)
(***************************************************************************)
\* t occurs in s.
Contains(s, t) ==
    \E i \in 1..(Len(s) - Len(t) + 1) : SubSeq(s, i, i + Len(t) - 1) = t
\* s ends with t, s starts with t.
HasSuffix(s, t) == Len(t) <= Len(s) /\ SubSeq(s, Len(s) - Len(t) + 1, Len(s)) = t
HasPrefix(s, t) == Len(t) <= Len(s) /\ SubSeq(s, 1, Len(t)) = t

\* The path is a directory named node_modules or lies beneath one.
Excluded(path) ==
    \/ Contains(path, <<"/">> \o node_modules \o <<"/">>)
    \/ HasSuffix(path, <<"/">> \o node_modules)

\* The path lies beneath directory d.
Beneath(path, d) == d = P_root \/ HasPrefix(path, d \o <<"/">>)

\* The files of the tree with their directory and name.
TreeEntries ==
    UNION {{<<d, n>> : n \in TreeFiles(d)} : d \in DirPaths}
PathOf(e) == IF e[1] = P_root THEN P_root \o e[2] ELSE e[1] \o <<"/">> \o e[2]

\* The names of the tree that end in .js, .html, .css or .py, one by one.
RecognizedNames ==
    {<<"a", ".", "p", "y">>, <<"b", ".", "j", "s">>, <<"c", ".", "j", "s">>,
     <<"d", ".", "p", "y">>, <<"c", ".", "c", "s", "s">>, <<"i", ".", "h", "t", "m", "l">>,
     <<"a", "p", "p", ".", "j", "s">>, <<".", "p", "y">>}

\* The number of lines of a file: its line ends (\n, \r\n, \r), and one more
\* for a last line without a line end.
RECURSIVE LineEnds(_)
LineEnds(bytes) ==
    IF bytes = <<>> THEN 0
    ELSE IF Len(bytes) >= 2 /\ bytes[1] = CR /\ bytes[2] = LF
         THEN 1 + LineEnds(SubSeq(bytes, 3, Len(bytes)))
         ELSE (IF bytes[1] \in {CR, LF} THEN 1 ELSE 0) + LineEnds(Tail(bytes))
LineCount(bytes) ==
    LineEnds(bytes)
    + (IF bytes # <<>> /\ bytes[Len(bytes)] \notin {CR, LF} THEN 1 ELSE 0)

RECURSIVE SumLines(_)
SumLines(paths) ==
    IF paths = {} THEN 0
    ELSE LET p == CHOOSE q \in paths : TRUE
         IN  LineCount(fs.data[p]) + SumLines(paths \ {p})

\* The lines a reader of a text sees: what stands between one \n and the next.
RECURSIVE Lines(_)
Lines(text) ==
    IF text = <<>> THEN <<>>
    ELSE IF \A i \in 1..Len(text) : text[i] # LF THEN <<text>>
    ELSE LET k == CHOOSE i \in 1..Len(text) :
                      text[i] = LF /\ \A j \in 1..(i - 1) : text[j] # LF
         IN  <<SubSeq(text, 1, k - 1)>> \o Lines(SubSeq(text, k + 1, Len(text)))

Hyphens ==
    <<"-", "-", "-", "-", "-", "-", "-", "-", "-", "-",
      "-", "-", "-", "-", "-", "-", "-", "-", "-", "-",
      "-", "-", "-", "-", "-", "-", "-", "-", "-", "-",
      "-", "-", "-", "-", "-", "-", "-", "-", "-", "-",
      "-", "-", "-", "-", "-", "-", "-", "-", "-", "-">>

\* The files the claim of C1 counts, and those the walk counts.
ClaimedFiles ==
    {PathOf(e) : e \in {x \in TreeEntries :
        /\ x[2] \in RecognizedNames
        /\ ~Excluded(PathOf(x))
        /\ ValidUTF8(fs.data[PathOf(x)])}}
ReachedFiles ==
    {p \in ClaimedFiles : \A d \in fs.unlistable : ~Beneath(p, d)}

C2_ExcludedNeverVisited ==
    /\ \A d \in scanned : ~Excluded(d)
    /\ \A i \in 1..Len(stack) : ~Excluded(stack[i])
    /\ \A p \in opened \cup counted \cup f : ~Excluded(p)
    /\ ~Excluded(root)
    /\ ~Excluded(file_path)
    /\ ~Contains(stdout, node_modules)

\* A run has completed in which node_modules was met at the root and, one
\* level down, in src.
C2_Witness ==
    /\ pc = "done"
    /\ P_src \in scanned \ fs.unlistable
    /\ P_doc \in scanned
    /\ counted # {}

(***************************************************************************)
(* C3                                                                      *)
(***************************************************************************)
\* The file being read is one whose bytes do not decode.
DecodeFails == pc = "read" /\ fs.mode[file_path] = "ok" /\ ~ValidUTF8(fs.data[file_path])

\* C3: reading a file that does not decode does not end the run: it adds to
\* the output one line starting "Error reading <file_path>: ", leaves
\* total_lines and what is left of the walk as they were, closes the file and
\* goes on with the next file; and a completed run has counted and printed
\* every valid file it reached and no file that does not decode.
C3_DecodeFailureIsolated ==
    /\ [][DecodeFails =>
            /\ pc' = "files"
            /\ total_lines' = total_lines
            /\ <<files, dirs, stack, root, counted>>' = <<files, dirs, stack, root, counted>>
            /\ Len(stdout') > Len(stdout)
            /\ LET added == SubSeq(stdout', Len(stdout) + 1, Len(stdout'))
                 IN  /\ HasPrefix(stdout', stdout)
                     /\ HasPrefix(added, ErrorReading \o file_path \o <<":", " ">>)
                     /\ Lines(added) = <<SubSeq(added, 1, Len(added) - 1)>>
                     /\ added[Len(added)] = LF]_vars
    /\ [](pc = "done" =>
            /\ counted = ReachedFiles
            /\ total_lines = SumLines(ReachedFiles)
            /\ \A p \in ReachedFiles :
                 Contains(stdout, ContentsOf \o p \o <<":", LF>> \o Translate(fs.data[p]))
            /\ \A p \in opened \ counted :
                 /\ ~ValidUTF8(fs.data[p])
                 /\ Contains(stdout, ErrorReading \o p \o <<":", " ">>)
                 /\ ~Contains(stdout, ContentsOf \o p \o <<":">>))

\* A run has completed in which c.css did not decode and .py, which comes
\* after it, was counted.
C3_Witness ==
    /\ pc = "done"
    /\ F_css \in opened \ counted
    /\ F_py \in counted
    /\ F_a \in counted

(***************************************************************************)
(* C4                                                                      *)
(***************************************************************************)
\* open() or read() is about to fail with an error other than a decode error.
OtherFailure ==
    \/ pc = "open" /\ fs.mode[file_path] = "noopen"
    \/ pc = "read" /\ fs.mode[file_path] = "ioerr"

\* C4: a failure of open() or read() other than a decode failure ends the run
\* at once: nothing more is printed or opened in that run, and its output
\* holds no "Total lines:" line.
C4_OtherFailureAborts ==
    /\ [][OtherFailure =>
            /\ pc' = "aborted"
            /\ stdout' = stdout
            /\ total_lines' = total_lines
            /\ counted' = counted]_vars
    /\ [][pc = "aborted" /\ run' = run => UNCHANGED vars]_vars
    /\ [](pc = "aborted" => ~Contains(stdout, TotalLines))
    /\ [](\A i \in 1..Len(earlier) :
            earlier[i].pc = "aborted" => ~Contains(earlier[i].stdout, TotalLines))

\* A run has aborted with lines counted and files of the directory left.
C4_Witness ==
    /\ pc = "aborted"
    /\ total_lines > 0
    /\ files # <<>>
    /\ stack # <<>>

Considered(d, n) ==
    /\ d \in scanned \ fs.unlistable
    /\ n \in TreeFiles(d)
    /\ d = root => /\ \A i \in 1..Len(files) : files[i] # n
                   /\ ~(pc = "open" /\ file_path = PathOf(<<d, n>>))

\* C6: a file the loop has passed was opened exactly if its name ends in .js,
\* .html, .css or .py; script.pyx, README and A.PY are never opened, and the
\* file named .py is opened and, in a run that completes, counted.
C6_SelectedIffSuffix ==
    /\ \A e \in TreeEntries :
         Considered(e[1], e[2]) => (PathOf(e) \in opened <=> e[2] \in RecognizedNames)
    /\ \A p \in opened : \E e \in TreeEntries : p = PathOf(e) /\ e[2] \in RecognizedNames
    /\ \A p \in opened :
         /\ ~HasSuffix(p, <<"/">> \o script_pyx)
         /\ ~HasSuffix(p, <<"/">> \o README)
         /\ ~HasSuffix(p, <<"/">> \o A_PY)
    /\ Considered(P_doc, py) => F_py \in opened
    /\ pc = "done" /\ Considered(P_doc, py) => F_py \in counted

\* A run has completed that passed script.pyx and A.PY in src, README at the
\* root and .py in doc.
C6_Witness ==
    /\ pc = "done"
    /\ Considered(P_src, script_pyx)
    /\ Considered(P_src, A_PY)
    /\ Considered(P_root, README)
    /\ F_py \in counted

(***************************************************************************)
(* C7                                                                      *)
(***************************************************************************)
\* What a step has added to the output.
Added == SubSeq(stdout', Len(stdout) + 1, Len(stdout'))
\* A line without its line end.
Chomp(l) == IF l # <<>> /\ l[Len(l)] = LF THEN SubSeq(l, 1, Len(l) - 1) ELSE l
ChompAll(ls) == [i \in 1..Len(ls) |-> Chomp(ls[i])]

\* C7 as stated: for a file that was read, the output is the header line, the
\* file's lines, a blank line, a line of 50 hyphens and a blank line.
C7_BlankLineBeforeHyphens ==
    [][pc = "print" =>
         /\ HasPrefix(stdout', stdout)
         /\ Added[Len(Added)] = LF
         /\ Lines(Added) = <<ContentsOf \o file_path \o <<":">>>>
                           \o ChompAll(file_lines)
                           \o <<<<>>, Hyphens, <<>>>>]_vars

\* C7 amended: for a file that was read, the output is the header line, the
\* file's text with \r\n and \r read as \n and nothing added, then \n, 50
\* hyphens, \n, \n: the header, the file's lines, a line of 50 hyphens and a
\* blank line, with a blank line before the hyphens exactly when the file is
\* empty or its last line ends in a line end.
C7_SeparatorAfterText ==
    [][pc = "print" =>
         LET text == Translate(fs.data[file_path])
             whole == text = <<>> \/ text[Len(text)] = LF
         IN  /\ HasPrefix(stdout', stdout)
             /\ Added = ContentsOf \o file_path \o <<":", LF>> \o text
                        \o <<LF>> \o Hyphens \o <<LF, LF>>
             /\ Lines(Added) = <<ContentsOf \o file_path \o <<":">>>>
                               \o ChompAll(file_lines)
                               \o (IF whole THEN <<<<>>>> ELSE <<>>)
                               \o <<Hyphens, <<>>>>]_vars

\* Files have been printed: one that is empty, one whose last line has no
\* line end, and one that ends in a line end.
C7_Witness ==
    /\ pc = "done"
    /\ F_a \in counted
    /\ fs.data[F_a] = <<>>
    /\ F_py \in counted
    /\ join(P_doc, i_html) \in counted
    /\ fs.data[join(P_doc, i_html)] = <<"x">>

(***************************************************************************)
(* C8                                                                      *)
(***************************************************************************)
\* C8: no step of a run changes the tree, and a run over the tree an earlier
\* run has left, with the same listing orders, ends as that run did, with the
\* same output and the same total.
C8_RunsAgree ==
    /\ [][fs' = fs]_vars
    /\ [](pc \in {"done", "aborted"} =>
            \A i \in 1..Len(earlier) :
                /\ earlier[i].stdout = stdout
                /\ earlier[i].total_lines = total_lines
                /\ earlier[i].pc = pc)

\* A second run has completed, with files printed and counted.
C8_Witness ==
    /\ run = 2
    /\ pc = "done"
    /\ Len(earlier) = 1
    /\ total_lines > 0
    /\ Cardinality(counted) >= 2

(***************************************************************************)
(* C9                                                                      *)
(***************************************************************************)
\* C9: at most one file is open; none is open when the next file is looked
\* at, when the next directory is listed or when the total is printed, be it
\* after a file was read or after one failed to decode.
C9_AtMostOneOpen ==
    /\ Cardinality(f) <= 1
    /\ pc \in {"walk", "prune", "files", "open", "done"} => f = {}
    /\ pc \in {"read", "print"} => f = {file_path}

\* The loop is at the next file after one file was read and one failed to
\* decode.
C9_Witness ==
    /\ pc = "files"
    /\ counted # {}
    /\ \E p \in opened \ counted : ~ValidUTF8(fs.data[p])

(***************************************************************************)
(* C10                                                                     *)
(***************************************************************************)
\* C10: total_lines is the sum of the line counts of the files read so far in
\* the run, 0 before the first; within a run it never decreases, and it
\* changes only in the step that has read a file with a recognized name, by
\* that file's line count.
C10_Accumulator ==
    /\ [](total_lines = SumLines(counted))
    /\ [](counted = {} => total_lines = 0)
    /\ [][run' = run =>
            /\ total_lines' >= total_lines
            /\ total_lines' # total_lines =>
                 /\ pc = "print"
                 /\ file_path \notin counted
                 /\ counted' = counted \cup {file_path}
                 /\ ValidUTF8(fs.data[file_path])
                 /\ \E e \in TreeEntries :
                      PathOf(e) = file_path /\ e[2] \in RecognizedNames
                 /\ total_lines' = total_lines + LineCount(fs.data[file_path])]_vars

\* Several files have been read, among them one with no lines.
C10_Witness ==
    /\ Cardinality(counted) >= 3
    /\ total_lines >= 3
    /\ \E p \in counted : LineCount(fs.data[p]) = 0
====
